---- MODULE Spec2Model ----
(***************************************************************************)
(* State-machine model of ckb-vm-signal-profiler (src/src/lib.rs).         *)
(*                                                                         *)
(* The process-wide slot PROFILER: Mutex<Option<Profiler>> is shared by    *)
(* the caller threads (start_profiler, stop_profiler, is_profiler_started) *)
(* and by perf_signal_handler, which runs on whichever thread the SIGPROF  *)
(* signal preempts.  Option<T> is modelled as a sequence of length <= 1.   *)
(***************************************************************************)
EXTENDS Integers, Sequences, FiniteSets, TLC

\* ------------------------------------------------------------------ bounds
\* Total number of start_profiler and stop_profiler calls made by all caller
\* threads together (is_profiler_started calls are not limited).
MaxCalls == 2
\* Total number of ticks the armed Timers generate.
MaxTicks == 2
\* Longest inline expansion (functions yielded for one pc) that is explored.
MaxInline == 2

\* ------------------------------------------------------------------ inputs
Threads == {1, 2}
Fnames == {"a.pb", "b.pb"}
\* Program images, one per outcome of build_context.
Programs == {"good", "bad_object", "bad_dwarf", "bad_context", "no_debug_frame"}
Frequencies == {0, 100}
\* Guest program counters with debug records of every shape.
GuestPCs == {4096, 4100, 4104, 4108, 4112, 4116, 4120}
\* Program counters the VM is at when a tick samples it: inside a function
\* with an inlined callee, outside every known range, and at an address whose
\* location lookup fails.
VmPCs == {4096, 4108, 4116}

None == <<>>
Some(x) == <<x>>

VARIABLES
    slot,       \* PROFILER's content: None or Some(Profiler)
    mutex,      \* holder of PROFILER's mutex: <<thread, frame>> or Free
    poisoned,   \* PROFILER's mutex poison flag
    sigdisp,    \* disposition of SIGPROF: "SigDfl", "Handler", "SigIgn"
    pending,    \* SIGPROF is pending for the process
    timers,     \* ids of the Timers that are alive (armed)
    files,      \* file system: fname -> None or Some(artifact)
    alive,      \* the process has not aborted
    pc,         \* pc[t]: position of thread t in the API call it runs
    hpc,        \* hpc[t]: position of the signal handler running on top of t
    local,      \* local[t]: arguments and locals of t's current (or last) call
    result,     \* result[t]: what t's last call returned
    nextId,     \* next Timer / session id
    ncalls,     \* calls made so far
    nticks,     \* ticks generated so far
    started,    \* history: a start returned Ok and no stop returned Ok since
    recorded,   \* history: recorded[s] = ticks the handler recorded in session s
    stoppedOk,  \* history: sessions whose stop returned Ok
    query,      \* lookup outcomes handed to extract_frame on its own (or None)
    resolved    \* what extract_frame made of query (or None)

vars == <<slot, mutex, poisoned, sigdisp, pending, timers, files, alive, pc, hpc,
          local, result, nextId, ncalls, nticks, started, recorded, stoppedOk,
          query, resolved>>

Free == <<0, "free">>
Caller(t) == <<t, "caller">>
Handler(t) == <<t, "handler">>

SessionIds == 1..MaxCalls

\* ------------------------------------------------- DebugContext (addr2line)
\* Outcome of addr_context.find_location(pc) on the "good" image:
\* Result<Option<Location{file: Option, line: Option}>>.
find_location(p) ==
    CASE p = 4096 -> [ok |-> TRUE, loc |-> Some([file |-> Some("a.c"), line |-> Some(3)])]
      [] p = 4100 -> [ok |-> TRUE, loc |-> Some([file |-> Some("a.c"), line |-> Some(0)])]
      [] p = 4104 -> [ok |-> TRUE, loc |-> Some([file |-> Some("b.c"), line |-> None])]
      [] p = 4108 -> [ok |-> TRUE, loc |-> None]
      [] p = 4112 -> [ok |-> TRUE, loc |-> Some([file |-> None, line |-> Some(7)])]
      [] p = 4116 -> [ok |-> FALSE, loc |-> None]
      [] OTHER    -> [ok |-> TRUE, loc |-> Some([file |-> Some("a.c"), line |-> Some(9)])]

Fn(raw) == [ok |-> TRUE, function |-> Some([raw_ok |-> TRUE, raw_name |-> raw])]
NoFn == [ok |-> TRUE, function |-> None]
BadName == [ok |-> TRUE, function |-> Some([raw_ok |-> FALSE, raw_name |-> ""])]
NextErr == [ok |-> FALSE, function |-> None]

\* Outcome of addr_context.find_frames(pc): Result<FrameIter>; the iterator
\* yields the inline-expanded functions leaf first.
find_frames(p) ==
    CASE p = 4096 -> [ok |-> TRUE, items |-> <<Fn("_ZN5inner"), Fn("_ZN5outer")>>]
      [] p = 4100 -> [ok |-> TRUE, items |-> <<Fn("main")>>]
      [] p = 4104 -> [ok |-> TRUE, items |-> <<Fn("_ZN4leaf"), NoFn, Fn("_ZN4root")>>]
      [] p = 4108 -> [ok |-> TRUE, items |-> <<>>]
      [] p = 4112 -> [ok |-> TRUE, items |-> <<Fn("main")>>]
      [] p = 4116 -> [ok |-> TRUE, items |-> <<Fn("main")>>]
      [] OTHER    -> [ok |-> TRUE, items |-> <<Fn("main"), BadName>>]

\* addr2line::demangle_auto: strips the mangling prefix of a mangled name.
demangle_auto(raw) ==
    CASE raw = "_ZN5inner" -> "inner"
      [] raw = "_ZN5outer" -> "outer"
      [] raw = "_ZN4leaf"  -> "leaf"
      [] raw = "_ZN4root"  -> "root"
      [] OTHER -> raw

RECURSIVE sprint_fun(_, _, _)
\* The closure of lines 61-76: s starts as "??" and is overwritten by every
\* function the iterator yields, until the iterator ends or yields a frame
\* without a function.
sprint_fun(items, i, s) ==
    IF i > Len(items) THEN [panic |-> FALSE, s |-> s]
    ELSE IF ~items[i].ok THEN [panic |-> TRUE, s |-> s]
    ELSE IF items[i].function = None THEN [panic |-> FALSE, s |-> s]
    ELSE IF ~items[i].function[1].raw_ok THEN [panic |-> TRUE, s |-> s]
    ELSE sprint_fun(items, i + 1, demangle_auto(items[i].function[1].raw_name))

NoFrame == <<>>

\* extract_frame, lines 47-87, on the outcomes l of find_location(pc) and fr
\* of find_frames(pc): [panic, frame]; frame is a one-Symbol stack.
extract_frame_of(l, fr) ==
    LET func == sprint_fun(fr.items, 1, "??")
    IN  IF ~l.ok THEN [panic |-> TRUE, frame |-> NoFrame]
        ELSE IF l.loc # None /\ l.loc[1].file = None THEN [panic |-> TRUE, frame |-> NoFrame]
        ELSE IF ~fr.ok \/ func.panic THEN [panic |-> TRUE, frame |-> NoFrame]
        ELSE [panic |-> FALSE,
              frame |-> << [name |-> Some(func.s),
                            line |-> IF l.loc = None THEN None ELSE l.loc[1].line,
                            file |-> IF l.loc = None THEN None ELSE l.loc[1].file] >>]

\* extract_frame(pc, context) on the "good" image.
extract_frame(p) == extract_frame_of(find_location(p), find_frames(p))

\* ------------------------------------------------------ Report (frames.rs)
EmptyReport == <<>>

\* Report::record: counts[frame] += 1, created at 1 on first sight.
record(counts, frame) ==
    IF frame \in DOMAIN counts
    THEN [counts EXCEPT ![frame] = @ + 1]
    ELSE [f \in DOMAIN counts \cup {frame} |-> IF f = frame THEN 1 ELSE counts[f]]

RECURSIVE SumOver(_, _)
SumOver(counts, S) ==
    IF S = {} THEN 0
    ELSE LET f == CHOOSE x \in S : TRUE IN counts[f] + SumOver(counts, S \ {f})

\* Total sample count a pprof reader finds in a sample table.
TotalSamples(counts) == SumOver(counts, DOMAIN counts)

\* Report::pprof(timing): the sample table at the moment of the call.
pprof(counts) == counts

\* --------------------------------------------------------- build_context
\* build_context(program): Ok, or the Err of the first step that fails.
build_context(program) ==
    CASE program = "bad_object"     -> "object parsing error"
      [] program = "bad_dwarf"      -> "dwarf load error"
      [] program = "bad_context"    -> "context creation error"
      [] program = "no_debug_frame" -> "Provided binary is missing .debug_frame section!"
      [] OTHER                      -> "Ok"

\* Timer::new(frequency_per_sec) fails on a non-positive frequency.
TimerNewFails(freq) == freq <= 0

\* ------------------------------------------------------------------- Init
\* What a call returned: Ok(value), Err(message), or the message of the
\* panic that unwound it.
NoResult == [kind |-> "none", what |-> ""]
Ok(v) == [kind |-> "Ok", what |-> v]
Err(msg) == [kind |-> "Err", what |-> msg]
Panic(msg) == [kind |-> "Panic", what |-> msg]

NoArgs == [op |-> "none", fname |-> "a.pb", program |-> "good", freq |-> 100,
           timer |-> None, bytes |-> None]

\* The process before any call: PROFILER is Mutex::new(None) (lines 22-24).
Constructed ==
    /\ slot = None
    /\ mutex = Free
    /\ poisoned = FALSE
    /\ sigdisp = "SigDfl"
    /\ pending = FALSE
    /\ timers = {}
    /\ files = [f \in Fnames |-> None]
    /\ alive = TRUE
    /\ pc = [t \in Threads |-> "idle"]
    /\ hpc = [t \in Threads |-> "none"]
    /\ local = [t \in Threads |-> NoArgs]
    /\ result = [t \in Threads |-> NoResult]
    /\ nextId = 1
    /\ ncalls = 0
    /\ nticks = 0
    /\ started = FALSE
    /\ recorded = [s \in SessionIds |-> 0]
    /\ stoppedOk = {}

Init ==
    /\ Constructed
    /\ query = None
    /\ resolved = None


\* ------------------------------------------------------------- helpers
is_some(s) == s # None
is_none(s) == s = None

\* The Timer a dropped Option<Profiler> / local Option<Timer> releases.
TimerOf(s) == IF s = None THEN {} ELSE {s[1].timer}
LocalTimer(t) == IF local[t].timer = None THEN {} ELSE {local[t].timer[1]}

CanRun(t) == alive /\ hpc[t] = "none"

\* What stays of a call's frame once it has returned: the operation and the
\* frequency it was called with.
Returned(l) == [NoArgs EXCEPT !.op = l.op, !.freq = l.freq]

Return(t, res) ==
    /\ pc' = [pc EXCEPT ![t] = "idle"]
    /\ result' = [result EXCEPT ![t] = res]
    /\ local' = [local EXCEPT ![t] = Returned(local[t])]

Goto(t, to) ==
    /\ pc' = [pc EXCEPT ![t] = to]
    /\ UNCHANGED <<result, local>>

\* A step that also writes one of the call's locals.
GotoWith(t, to, l) ==
    /\ pc' = [pc EXCEPT ![t] = to]
    /\ local' = [local EXCEPT ![t] = l]
    /\ UNCHANGED result

\* ------------------------------------------------------- the caller's calls
Call(t) ==
    /\ CanRun(t)
    /\ pc[t] = "idle"
    /\ result' = [result EXCEPT ![t] = NoResult]
    /\ \/ /\ pc' = [pc EXCEPT ![t] = "is_lock"]
          /\ local' = [local EXCEPT ![t] = [NoArgs EXCEPT !.op = "is_started"]]
          /\ UNCHANGED ncalls
       \/ /\ ncalls < MaxCalls
          /\ ncalls' = ncalls + 1
          /\ pc' = [pc EXCEPT ![t] = "sp_lock"]
          /\ local' = [local EXCEPT ![t] = [NoArgs EXCEPT !.op = "stop"]]
       \/ \E f \in Fnames, p \in Programs, q \in Frequencies :
             /\ ncalls < MaxCalls
             /\ ncalls' = ncalls + 1
             /\ pc' = [pc EXCEPT ![t] = "st_lock"]
             /\ local' = [local EXCEPT ![t] =
                    [op |-> "start", fname |-> f, program |-> p, freq |-> q,
                     timer |-> None, bytes |-> None]]
    /\ UNCHANGED <<slot, mutex, poisoned, sigdisp, pending, timers, files, alive, hpc,
                   nextId, nticks, started, recorded, stoppedOk,
                   query, resolved>>

\* PROFILER.lock().expect("Mutex lock failure") on a caller path: blocks until
\* the mutex is free; a poisoned mutex makes expect panic, which unwinds the
\* call and drops its locals.
CallerLock(t, from, to) ==
    /\ CanRun(t)
    /\ pc[t] = from
    /\ mutex = Free
    /\ IF poisoned
       THEN /\ Return(t, Panic("Mutex lock failure"))
            /\ timers' = timers \ LocalTimer(t)
            /\ UNCHANGED mutex
       ELSE /\ Goto(t, to)
            /\ mutex' = Caller(t)
            /\ UNCHANGED timers
    /\ UNCHANGED <<slot, poisoned, sigdisp, pending, files, alive, hpc,
                   nextId, ncalls, nticks, started, recorded, stoppedOk,
                   query, resolved>>

\* A slip in is_profiler_started: is_none for is_some.
is_profiler_started_negated(s) == is_none(s)

\* is_profiler_started, lines 101-103: the value it returns.
is_profiler_started(s) == is_some(s)

IsStartedLock(t) == CallerLock(t, "is_lock", "is_read")

IsStartedRead(t) ==
    /\ CanRun(t)
    /\ pc[t] = "is_read"
    /\ Return(t, Ok(IF is_profiler_started(slot) THEN "true" ELSE "false"))
    /\ mutex' = Free
    /\ UNCHANGED <<slot, poisoned, sigdisp, pending, timers, files, alive, hpc,
                   nextId, ncalls, nticks, started, recorded, stoppedOk,
                   query, resolved>>

\* start_profiler, lines 149-151: if is_profiler_started() { return Err(..) }
StartLock(t) == CallerLock(t, "st_lock", "st_check")

\* A start_profiler without its guard.
AlreadyStartedUnchecked(s) == FALSE

AlreadyStarted(s) == is_profiler_started(s)

StartCheck(t) ==
    /\ CanRun(t)
    /\ pc[t] = "st_check"
    /\ mutex' = Free
    /\ IF AlreadyStarted(slot)
       THEN Return(t, Err("Profiler already started!"))
       ELSE Goto(t, "st_build")
    /\ UNCHANGED <<slot, poisoned, sigdisp, pending, timers, files, alive, hpc,
                   nextId, ncalls, nticks, started, recorded, stoppedOk,
                   query, resolved>>

\* line 153: let context = build_context(program)?;
StartBuild(t) ==
    /\ CanRun(t)
    /\ pc[t] = "st_build"
    /\ IF build_context(local[t].program) # "Ok"
       THEN Return(t, Err(build_context(local[t].program)))
       ELSE Goto(t, "st_sigaction")
    /\ UNCHANGED <<slot, mutex, poisoned, sigdisp, pending, timers, files, alive, hpc,
                   nextId, ncalls, nticks, started, recorded, stoppedOk,
                   query, resolved>>

\* lines 155-163: sigaction(SIGPROF, handler) succeeds or fails.
\* A start_profiler that leaves the SIGPROF disposition as it found it.
NotInstalled(d) == d

\* lines 156-162: sigaction(SIGPROF, SigAction(Handler(perf_signal_handler), ..)).
Installed(d) == "Handler"

StartSigaction(t) ==
    /\ CanRun(t)
    /\ pc[t] = "st_sigaction"
    /\ \/ /\ sigdisp' = Installed(sigdisp)
          /\ Goto(t, "st_timer")
       \/ /\ Return(t, Err("sigaction install error"))
          /\ UNCHANGED sigdisp
    /\ UNCHANGED <<slot, mutex, poisoned, pending, timers, files, alive, hpc,
                   nextId, ncalls, nticks, started, recorded, stoppedOk,
                   query, resolved>>

\* lines 165-171: the Profiler value is built; Timer::new arms the timer.
StartTimer(t) ==
    /\ CanRun(t)
    /\ pc[t] = "st_timer"
    /\ IF TimerNewFails(local[t].freq)
       THEN /\ Return(t, Panic("Timer::new"))
            /\ UNCHANGED <<timers, nextId>>
       ELSE /\ GotoWith(t, "st_lock2", [local[t] EXCEPT !.timer = Some(nextId)])
            /\ timers' = timers \cup {nextId}
            /\ nextId' = nextId + 1
    /\ UNCHANGED <<slot, mutex, poisoned, sigdisp, pending, files, alive, hpc,
                   ncalls, nticks, started, recorded, stoppedOk,
                   query, resolved>>

\* line 173: *(PROFILER.lock().expect(..)) = Some(profiler);
StartLock2(t) == CallerLock(t, "st_lock2", "st_assign")

\* A Profiler published before its Timer is constructed.
NewProfilerUnarmed(t) ==
    [id |-> local[t].timer[1], fname |-> local[t].fname, machine |-> t,
     context |-> local[t].program, timer |-> 0, report |-> EmptyReport]

\* lines 165-171: Profiler { fname, machine, context, timer, report }.
NewProfiler(t) ==
    [id |-> local[t].timer[1], fname |-> local[t].fname, machine |-> t,
     context |-> local[t].program, timer |-> local[t].timer[1], report |-> EmptyReport]

StartAssign(t) ==
    /\ CanRun(t)
    /\ pc[t] = "st_assign"
    /\ slot' = Some(NewProfiler(t))
    /\ timers' = timers \ TimerOf(slot)
    /\ mutex' = Free
    /\ Return(t, Ok("()"))
    /\ started' = TRUE
    /\ UNCHANGED <<poisoned, sigdisp, pending, files, alive, hpc,
                   nextId, ncalls, nticks, recorded, stoppedOk,
                   query, resolved>>

\* stop_profiler, lines 179-182.
StopLock(t) == CallerLock(t, "sp_lock", "sp_check")

\* A stop_profiler without its guard.
NotStartedUnchecked(s) == FALSE

NotStarted(s) == is_none(s)

StopCheck(t) ==
    /\ CanRun(t)
    /\ pc[t] = "sp_check"
    /\ IF NotStarted(slot)
       THEN /\ Return(t, Err("Profiler not started!"))
            /\ mutex' = Free
       ELSE /\ Goto(t, "sp_serialize")
            /\ UNCHANGED mutex
    /\ UNCHANGED <<slot, poisoned, sigdisp, pending, timers, files, alive, hpc,
                   nextId, ncalls, nticks, started, recorded, stoppedOk,
                   query, resolved>>

\* A panic that unwinds stop_profiler while it holds the guard: the guard's
\* drop poisons the mutex and releases it.
StopPanic(t, msg) ==
    /\ Return(t, Panic(msg))
    /\ poisoned' = TRUE
    /\ mutex' = Free

\* lines 184-193: unwrap, timing, pprof(timing).expect, write_to_bytes().expect.
StopSerialize(t) ==
    /\ CanRun(t)
    /\ pc[t] = "sp_serialize"
    /\ \/ /\ is_some(slot)
          /\ GotoWith(t, "sp_write", [local[t] EXCEPT !.bytes = Some(pprof(slot[1].report))])
          /\ UNCHANGED <<poisoned, mutex>>
       \/ /\ is_none(slot)
          /\ StopPanic(t, "unwrap on None")
       \/ /\ is_some(slot)
          /\ \E msg \in {"pprof serialization", "protobuf serialization"} : StopPanic(t, msg)
    /\ UNCHANGED <<slot, sigdisp, pending, timers, files, alive, hpc,
                   nextId, ncalls, nticks, started, recorded, stoppedOk,
                   query, resolved>>

\* line 194: fs::write(fname, data).expect("write");
StopWrite(t) ==
    /\ CanRun(t)
    /\ pc[t] = "sp_write"
    /\ \/ /\ GotoWith(t, "sp_signal", [local[t] EXCEPT !.bytes = None])
          /\ files' = [files EXCEPT ![slot[1].fname] =
                          Some([session |-> slot[1].id, samples |-> local[t].bytes[1]])]
          /\ UNCHANGED <<poisoned, mutex>>
       \/ /\ StopPanic(t, "write")
          /\ UNCHANGED files
    /\ UNCHANGED <<slot, sigdisp, pending, timers, alive, hpc,
                   nextId, ncalls, nticks, started, recorded, stoppedOk,
                   query, resolved>>

\* lines 196-199: signal(SIGPROF, SigIgn) succeeds (a pending SIGPROF is
\* discarded) or fails, and the error is returned with the slot as it is.
StopSignal(t) ==
    /\ CanRun(t)
    /\ pc[t] = "sp_signal"
    /\ \/ /\ sigdisp' = "SigIgn"
          /\ pending' = FALSE
          /\ Goto(t, "sp_clear")
          /\ UNCHANGED mutex
       \/ /\ Return(t, Err("sigaction uninstall error"))
          /\ mutex' = Free
          /\ UNCHANGED <<sigdisp, pending>>
    /\ UNCHANGED <<slot, poisoned, timers, files, alive, hpc,
                   nextId, ncalls, nticks, started, recorded, stoppedOk,
                   query, resolved>>

\* A stop_profiler that leaves the slot as it is.
NotCleared(s) == s

\* line 201: *profiler = None;
Cleared(s) == None

\* lines 201-203: *profiler = None; Ok(())
StopClear(t) ==
    /\ CanRun(t)
    /\ pc[t] = "sp_clear"
    /\ slot' = Cleared(slot)
    /\ timers' = timers \ TimerOf(slot)
    /\ mutex' = Free
    /\ Return(t, Ok("()"))
    /\ started' = FALSE
    /\ stoppedOk' = stoppedOk \cup {slot[1].id}
    /\ UNCHANGED <<poisoned, sigdisp, pending, files, alive, hpc,
                   nextId, ncalls, nticks, recorded,
                   query, resolved>>

\* ------------------------------------------------------------------ ticks
\* An armed Timer generates SIGPROF; the signal is kept pending only while a
\* handler is installed (an ignored signal is discarded when generated).
Tick ==
    /\ alive
    /\ timers # {}
    /\ sigdisp = "Handler"
    /\ ~pending
    /\ nticks < MaxTicks
    /\ pending' = TRUE
    /\ nticks' = nticks + 1
    /\ UNCHANGED <<slot, mutex, poisoned, sigdisp, timers, files, alive, pc, hpc, local,
                   result, nextId, ncalls, started, recorded, stoppedOk,
                   query, resolved>>

\* The pending SIGPROF is delivered to a thread that is not already running
\* the handler (SIGPROF is blocked while its handler runs): the handler
\* preempts whatever that thread is doing.
Deliver(t) ==
    /\ alive
    /\ pending
    /\ sigdisp = "Handler"
    /\ hpc[t] = "none"
    /\ pending' = FALSE
    /\ hpc' = [hpc EXCEPT ![t] = "h_lock"]
    /\ UNCHANGED <<slot, mutex, poisoned, sigdisp, timers, files, alive, pc, local,
                   result, nextId, ncalls, nticks, started, recorded, stoppedOk,
                   query, resolved>>

\* perf_signal_handler, line 90: PROFILER.lock().expect("Mutex lock failure").
\* The lock is a blocking one: the handler proceeds only once the mutex is free.
\* A panic in the extern "C" handler aborts the process.
\* A handler that enters its body without waiting for the mutex.
HandlerLocksAnyway(m) == TRUE

HandlerMayLock(m) == m = Free

HandlerLock(t) ==
    /\ alive
    /\ hpc[t] = "h_lock"
    /\ HandlerMayLock(mutex)
    /\ IF poisoned
       THEN /\ alive' = FALSE
            /\ UNCHANGED <<mutex, hpc>>
       ELSE /\ mutex' = Handler(t)
            /\ hpc' = [hpc EXCEPT ![t] = "h_body"]
            /\ UNCHANGED alive
    /\ UNCHANGED <<slot, poisoned, sigdisp, pending, timers, files, pc, local,
                   result, nextId, ncalls, nticks, started, recorded, stoppedOk,
                   query, resolved>>

\* The handler waits for a mutex held by the frame it preempted.
SelfDeadlocked(t) == hpc[t] = "h_lock" /\ mutex = Caller(t)

\* Locking a std Mutex on the thread that holds it never returns: it
\* deadlocks (no step) or panics, and the panic aborts the process.
HandlerRelock(t) ==
    /\ alive
    /\ SelfDeadlocked(t)
    /\ alive' = FALSE
    /\ UNCHANGED <<slot, mutex, poisoned, sigdisp, pending, timers, files, pc, hpc, local,
                   result, nextId, ncalls, nticks, started, recorded, stoppedOk,
                   query, resolved>>

\* A handler that records the frame twice.
SampledTwice(p, frame) == [p EXCEPT !.report = record(record(p.report, frame), frame)]

\* A handler that also redirects the session's output path.
SampledRetargeted(p, frame) ==
    [p EXCEPT !.report = record(p.report, frame), !.fname = "b.pb"]

\* lines 91-98: the body, run with the guard held; the guard drops at return.
Sampled(p, frame) == [p EXCEPT !.report = record(p.report, frame)]

HandlerBody(t) ==
    /\ alive
    /\ hpc[t] = "h_body"
    /\ IF is_some(slot)
       THEN \E g \in VmPCs :
              IF extract_frame(g).panic
              THEN /\ alive' = FALSE
                   /\ UNCHANGED <<slot, mutex, hpc, recorded>>
              ELSE /\ slot' = Some(Sampled(slot[1], extract_frame(g).frame))
                   /\ recorded' = [recorded EXCEPT ![slot[1].id] = @ + 1]
                   /\ mutex' = Free
                   /\ hpc' = [hpc EXCEPT ![t] = "none"]
                   /\ UNCHANGED alive
       ELSE /\ mutex' = Free
            /\ hpc' = [hpc EXCEPT ![t] = "none"]
            /\ UNCHANGED <<slot, alive, recorded>>
    /\ UNCHANGED <<poisoned, sigdisp, pending, timers, files, pc, local,
                   result, nextId, ncalls, nticks, started, stoppedOk,
                   query, resolved>>

\* ------------------------------------------------------------------- Next
Next ==
    \/ \E t \in Threads : Call(t)
    \/ \E t \in Threads : IsStartedLock(t)
    \/ \E t \in Threads : IsStartedRead(t)
    \/ \E t \in Threads : StartLock(t)
    \/ \E t \in Threads : StartCheck(t)
    \/ \E t \in Threads : StartBuild(t)
    \/ \E t \in Threads : StartSigaction(t)
    \/ \E t \in Threads : StartTimer(t)
    \/ \E t \in Threads : StartLock2(t)
    \/ \E t \in Threads : StartAssign(t)
    \/ \E t \in Threads : StopLock(t)
    \/ \E t \in Threads : StopCheck(t)
    \/ \E t \in Threads : StopSerialize(t)
    \/ \E t \in Threads : StopWrite(t)
    \/ \E t \in Threads : StopSignal(t)
    \/ \E t \in Threads : StopClear(t)
    \/ Tick
    \/ \E t \in Threads : Deliver(t)
    \/ \E t \in Threads : HandlerLock(t)
    \/ \E t \in Threads : HandlerRelock(t)
    \/ \E t \in Threads : HandlerBody(t)

Spec == Init /\ [][Next]_vars

\* --------------------------------------------- extract_frame on its own
\* Outcomes of addr_context.find_location(pc): Err, Ok(None), or Ok(Some) of a
\* location whose file and line are each present or not; a line is a u32.
LocOutcomes ==
    {[ok |-> FALSE, loc |-> None], [ok |-> TRUE, loc |-> None]} \cup
    {[ok |-> TRUE, loc |-> Some([file |-> f, line |-> n])] :
        f \in {None, Some("a.c")}, n \in {None, Some(0), Some(3)}}

\* What one frame_iter.next() can yield.
Items == {Fn("_ZN5inner"), Fn("main"), NoFn, BadName, NextErr}

\* Outcomes of addr_context.find_frames(pc): Err, or an iterator over at most
\* MaxInline items, leaf first.
FrameOutcomes ==
    {[ok |-> FALSE, items |-> <<>>]} \cup
    {[ok |-> TRUE, items |-> q] : q \in UNION {[1..n -> Items] : n \in 0..MaxInline}}

ResolveInit ==
    /\ Constructed
    /\ \E l \in LocOutcomes, fr \in FrameOutcomes :
            query = Some([loc |-> l, frames |-> fr])
    /\ resolved = None

\* One call of extract_frame (lines 47-87) on the lookups' outcomes.
Resolve ==
    /\ is_some(query)
    /\ is_none(resolved)
    /\ resolved' = Some(extract_frame_of(query[1].loc, query[1].frames))
    /\ UNCHANGED <<slot, mutex, poisoned, sigdisp, pending, timers, files, alive, pc, hpc,
                   local, result, nextId, ncalls, nticks, started, recorded, stoppedOk,
                   query>>

NextResolve == Resolve

SpecResolve == ResolveInit /\ [][NextResolve]_vars

TypeOK ==
    /\ Len(slot) <= 1
    /\ poisoned \in BOOLEAN
    /\ sigdisp \in {"SigDfl", "Handler", "SigIgn"}
    /\ timers \subseteq SessionIds
    /\ ncalls \in 0..MaxCalls
    /\ nticks \in 0..MaxTicks

\* ------------------------------------------------------------------ claims
SoleCaller(t) == \A u \in Threads \ {t} : local[u].op = "none"
ReturnedFrom(t, op) == pc[t] = "idle" /\ local[t].op = op /\ result[t] # NoResult
StepOf(t, from) == pc[t] = from /\ pc'[t] # from

\* C1: is_profiler_started returns true if and only if some start_profiler
\* call has returned Ok and no stop_profiler call has returned Ok since.
C1_IsStartedIffActive ==
    [][\A t \in Threads :
          StepOf(t, "is_read") =>
              /\ result'[t].kind = "Ok"
              /\ (result'[t].what = "true") <=> started]_vars

C1_Witness ==
    \E t, u \in Threads :
        /\ ReturnedFrom(t, "is_started") /\ result[t] = Ok("true")
        /\ ReturnedFrom(u, "is_started") /\ result[u] = Ok("false")
        /\ stoppedOk # {}

\* C2: start_profiler called while a session is active returns the "already
\* started" error at its guard, and no step of the call up to there changes
\* the slot (path, VM handle, context, timer, report), the SIGPROF
\* disposition, the armed timers or the files.
C2_StartTwiceRejected ==
    [][\A t \in Threads :
          /\ StepOf(t, "st_lock") => UNCHANGED <<slot, sigdisp, timers, files>>
          /\ (StepOf(t, "st_check") /\ is_some(slot)) =>
                /\ result'[t] = Err("Profiler already started!")
                /\ pc'[t] = "idle"
                /\ UNCHANGED <<slot, sigdisp, timers, files, pending>>]_vars

C2_Witness ==
    \E t \in Threads :
        /\ ReturnedFrom(t, "start")
        /\ result[t] = Err("Profiler already started!")
        /\ is_some(slot)
        /\ slot[1].machine # t
        /\ timers = {slot[1].timer}
        /\ sigdisp = "Handler"

\* C3: stop_profiler called while no session is active returns the "not
\* started" error and changes nothing: the slot stays absent, no file is
\* written and the SIGPROF disposition is not touched.
C3_StopWithoutStartRejected ==
    [][\A t \in Threads :
          /\ StepOf(t, "sp_lock") => UNCHANGED <<slot, sigdisp, timers, files>>
          /\ (StepOf(t, "sp_check") /\ is_none(slot)) =>
                /\ result'[t] = Err("Profiler not started!")
                /\ pc'[t] = "idle"
                /\ slot' = None
                /\ UNCHANGED <<sigdisp, timers, files, pending, poisoned>>]_vars

C3_Witness ==
    \E t \in Threads :
        /\ ReturnedFrom(t, "stop")
        /\ result[t] = Err("Profiler not started!")
        /\ is_none(slot)
        /\ files = [f \in Fnames |-> None]
        /\ sigdisp = "SigDfl"

\* C4: whenever start_profiler fails, for whatever reason, the profiler is
\* Inactive afterwards, no tick handler is installed and no timer is armed
\* (stated for a process with one calling thread; a start rejected because a
\* session is active is not a failure of this kind).
C4_StartAllOrNothing ==
    \A t \in Threads :
        (/\ ReturnedFrom(t, "start")
         /\ SoleCaller(t)
         /\ result[t].kind # "Ok"
         /\ result[t] # Err("Profiler already started!"))
        => (is_none(slot) /\ sigdisp # "Handler" /\ timers = {})

StartErrors ==
    {"Profiler already started!", "object parsing error", "dwarf load error",
     "context creation error", "Provided binary is missing .debug_frame section!",
     "sigaction install error"}

\* C5: start_profiler called with a frequency <= 0 (and failing for no other
\* reason first) returns an InvalidArgument error, and the profiler stays
\* Inactive with no handler installed and no timer armed.
C5_NonPositiveFrequencyRejected ==
    \A t \in Threads :
        (/\ ReturnedFrom(t, "start")
         /\ SoleCaller(t)
         /\ local[t].freq <= 0
         /\ result[t].what \notin StartErrors)
        => (/\ result[t] = Err("InvalidArgument")
            /\ is_none(slot)
            /\ sigdisp # "Handler"
            /\ timers = {})

\* C6: when report serialization or the file write fails during
\* stop_profiler on an active session, stop returns the error as an error
\* value, the ignore handler has replaced the tick handler and the slot is
\* cleared.
C6_StopBestEffortCleanup ==
    \A t \in Threads :
        (/\ ReturnedFrom(t, "stop")
         /\ SoleCaller(t)
         /\ result[t].what \in {"pprof serialization", "protobuf serialization", "write"})
        => (/\ result[t].kind = "Err"
            /\ is_none(slot)
            /\ sigdisp = "SigIgn")

\* C7: no tick-handler invocation waits forever for the slot: the handler
\* never waits for a mutex held by the very frame it preempted, which cannot
\* run (and release it) before the handler returns.
C7_HandlerNeverWaitsForever ==
    \A t \in Threads : ~SelfDeadlocked(t)

\* C8: once stop_profiler has returned Ok for a session, nothing is recorded
\* into that session's Report any more, whatever ticks are in flight.
C8_NoTickAfterStop ==
    [][\A s \in stoppedOk :
          /\ recorded'[s] = recorded[s]
          /\ (is_some(slot') /\ slot'[1].id = s) =>
                (is_some(slot) /\ slot[1].id = s /\ slot'[1].report = slot[1].report)]_vars

C8_Witness ==
    \E t \in Threads :
        /\ hpc[t] = "h_body"
        /\ is_none(slot)
        /\ stoppedOk # {}

Count(s, f) == IF is_some(s) /\ f \in DOMAIN s[1].report THEN s[1].report[f] ELSE 0
Frames(s) == IF is_some(s) THEN DOMAIN s[1].report ELSE {}

\* C9: during a session no Frame's count decreases, and a handler invocation
\* that finds the slot populated and resolves the VM's PC to f raises
\* counts[f] by exactly 1 and leaves every other count as it was.
C9_MonotonicCounts ==
    [][/\ (is_some(slot) /\ is_some(slot') /\ slot'[1].id = slot[1].id) =>
             \A f \in Frames(slot) : Count(slot', f) >= Count(slot, f)
       /\ \A t \in Threads :
             (hpc[t] = "h_body" /\ hpc'[t] = "none" /\ is_some(slot)) =>
                \E g \in VmPCs :
                    /\ ~extract_frame(g).panic
                    /\ is_some(slot')
                    /\ slot'[1].id = slot[1].id
                    /\ Count(slot', extract_frame(g).frame)
                          = Count(slot, extract_frame(g).frame) + 1
                    /\ \A f \in (Frames(slot) \cup Frames(slot')) \ {extract_frame(g).frame} :
                          Count(slot', f) = Count(slot, f)]_vars

C9_Witness ==
    /\ is_some(slot)
    /\ Cardinality(Frames(slot)) = 1
    /\ \E f \in Frames(slot) : Count(slot, f) = 2

\* C10: the artifact a successful stop_profiler wrote holds a total sample
\* count equal to the number of ticks the handler recorded in that session.
C10_ArtifactTotalIsRecorded ==
    \A f \in Fnames :
        (is_some(files[f]) /\ files[f][1].session \in stoppedOk) =>
            TotalSamples(files[f][1].samples) = recorded[files[f][1].session]

C10_Witness ==
    \E f \in Fnames, t \in Threads :
        /\ is_some(files[f])
        /\ files[f][1].session \in stoppedOk
        /\ TotalSamples(files[f][1].samples) = 2
        /\ ReturnedFrom(t, "stop")
        /\ result[t] = Ok("()")

\* C11: the tick handler never blocks on the slot: whenever an invocation is
\* at its acquire, it can take its next step at once, whoever holds the
\* mutex (a try-acquire that fails returns and the tick is dropped).
C11_HandlerNeverBlocks ==
    \A t \in Threads :
        (alive /\ hpc[t] = "h_lock") => ENABLED HandlerLock(t)

\* C12: no tick of a new session fires while the slot is still absent: a
\* SIGPROF that is pending finds the slot populated.
C12_SlotPopulatedBeforeTicks ==
    pending => is_some(slot)

FullyPopulated(p) ==
    /\ DOMAIN p = {"id", "fname", "machine", "context", "timer", "report"}
    /\ p.fname \in Fnames
    /\ p.machine \in Threads
    /\ build_context(p.context) = "Ok"
    /\ p.timer \in timers
    /\ \A f \in DOMAIN p.report : p.report[f] >= 1

\* C14: what a handler invocation finds in the slot, once it holds the
\* mutex, is either absent or a fully populated Profiler.
C14_NoPartialSlot ==
    \A t \in Threads :
        hpc[t] = "h_body" => (is_none(slot) \/ FullyPopulated(slot[1]))

\* A handler invocation holds the mutex and looks at a populated slot.
C14_Witness ==
    \E t \in Threads : hpc[t] = "h_body" /\ mutex = Handler(t) /\ is_some(slot)

\* C15: whenever stop_profiler returns, Ok or Err, after it found a session
\* in the slot, that session's Timer has been released.
C15_TimerReleasedOnEveryStopExit ==
    \A t \in Threads :
        ( /\ ReturnedFrom(t, "stop")
          /\ SoleCaller(t)
          /\ result[t].kind \in {"Ok", "Err"}
          /\ result[t] # Err("Profiler not started!") ) => timers = {}

\* C16: extract_frame never fails: whatever the lookups return, the call
\* returns a Frame of one Symbol.
C16_ExtractFrameTotal ==
    is_some(resolved) => (~resolved[1].panic /\ Len(resolved[1].frame) = 1)

\* The lookups returned a leaf-first sequence of one or more functions, all
\* with a readable name, and a location that extract_frame accepts.
FunctionsOnly(q) ==
    /\ q.loc.ok
    /\ q.loc.loc # None => q.loc.loc[1].file # None
    /\ q.frames.ok
    /\ Len(q.frames.items) >= 1
    /\ \A i \in 1..Len(q.frames.items) :
           /\ q.frames.items[i].ok
           /\ q.frames.items[i].function # None
           /\ q.frames.items[i].function[1].raw_ok

\* C17: on a leaf-first sequence of one or more functions, the Symbol's name
\* is the demangled name of the first (innermost) function.
C17_InnermostFunctionNamed ==
    (is_some(resolved) /\ FunctionsOnly(query[1])) =>
        /\ ~resolved[1].panic
        /\ resolved[1].frame[1].name =
               Some(demangle_auto(query[1].frames.items[1].function[1].raw_name))

\* C18: a Symbol's line, when present, is positive; a looked-up line of zero
\* gives an absent line.
C18_PresentLinePositive ==
    (is_some(resolved) /\ ~resolved[1].panic) =>
        LET line == resolved[1].frame[1].line
        IN  is_some(line) => line[1] > 0

\* C19: of the start_profiler calls made while no session has been stopped,
\* at most one returns Ok.
C19_AtMostOneStartSucceeds ==
    stoppedOk = {} =>
        \A t, u \in Threads :
            ( /\ ReturnedFrom(t, "start") /\ result[t] = Ok("()")
              /\ ReturnedFrom(u, "start") /\ result[u] = Ok("()") ) => t = u

\* A step of the handler invocation running on top of thread t: its acquire
\* (or its abort on a poisoned or self-held mutex) or its body.
HandlerStep(t) ==
    \/ hpc[t] = "h_lock" /\ (hpc'[t] = "h_body" \/ (alive /\ ~alive'))
    \/ hpc[t] = "h_body" /\ (hpc'[t] = "none" \/ (alive /\ ~alive'))

\* C20: a handler invocation changes nothing but the Report's counts: slot
\* presence, output path, VM handle, DebugContext, Timer, the SIGPROF
\* disposition and everything outside the slot stay as they were; an
\* invocation that finds the slot absent returns with the state it found.
C20_HandlerChangesOnlyCounts ==
    [][\A t \in Threads :
          /\ HandlerStep(t) =>
                /\ is_some(slot') <=> is_some(slot)
                /\ is_some(slot) =>
                      \A f \in {"id", "fname", "machine", "context", "timer"} :
                          slot'[1][f] = slot[1][f]
                /\ UNCHANGED <<sigdisp, timers, files, poisoned, pending, pc, local,
                               result, nextId, ncalls, nticks, started, stoppedOk>>
          /\ (hpc[t] = "h_body" /\ hpc'[t] = "none" /\ is_none(slot)) =>
                /\ mutex' = Free
                /\ UNCHANGED <<slot, poisoned, sigdisp, pending, timers, files, alive,
                               pc, local, result, nextId, ncalls, nticks, started,
                               recorded, stoppedOk>>]_vars

\* Two handler invocations have returned in the only session there was, with
\* no stop_profiler called: one recorded a sample, the other found the slot
\* absent.
C20_Witness ==
    /\ alive
    /\ \A t \in Threads : hpc[t] = "none" /\ local[t].op # "stop"
    /\ nextId = 2
    /\ is_some(slot)
    /\ nticks = 2
    /\ ~pending
    /\ recorded[slot[1].id] = 1
====
